---- MODULE Spec2Model ----
(***************************************************************************)
(* Model of bad_ascii: the terminal playback program (src/src/main.rs) and *)
(* the code generated by the `process` macro                               *)
(* (src/bad_ascii_proc_macro/src/lib.rs).                                  *)
(*                                                                         *)
(* A string is a sequence of Unicode scalar values (numbers); a frame is a *)
(* sequence of lines; a byte string is a sequence of numbers 0..255.       *)
(*                                                                         *)
(*   Spec       main(): start-up, padding, the playback loop, exit         *)
(*   FnSpec     the pure helpers of main.rs applied to drawn inputs        *)
(*   MacroSpec  process!(): flattening the frames, then create_frames()    *)
(***************************************************************************)
EXTENDS Integers, Sequences, FiniteSets, TLC

VARIABLES
    pc,            \* main: position in main()
    loaded,        \* main: extract_frames / frame_to_ascii have returned
    term_size,     \* main: <<term_width, term_height>> of terminal::size()
    target_size,   \* main: calculate_target_size(term_width, term_height)
    ascii_frames,  \* main: Vec<Vec<String>>
    top,           \* main: get_vertical_padding
    left,          \* main: get_horizontal_padding
    frame_idx,     \* main: number of frames the for loop has consumed
    output,        \* main: what stdout has received, in order
    elapsed,       \* main: start.elapsed().as_millis() at the last reading
    wait_time,     \* main: the last duration handed to sleep, in ms
    result,        \* main: how main() ended
    call,          \* FnSpec: the helper called and its arguments
    ret,           \* FnSpec: its return value
    m_pc,          \* MacroSpec: position in process / create_frames
    m_endian,      \* MacroSpec: byte order of the target
    m_ascii,       \* MacroSpec: ascii_frames: Vec<String> of process()
    FRAME_LENGTHS, \* MacroSpec: generated const
    CHAR_ARRAY,    \* MacroSpec: generated const, one element per char
    char_index,    \* MacroSpec: create_frames local
    i,             \* MacroSpec: create_frames local
    frames,        \* MacroSpec: create_frames local, each a byte string
    oob            \* MacroSpec: a read of CHAR_ARRAY left the array

mainVars == <<pc, loaded, term_size, target_size, ascii_frames, top, left,
              frame_idx, output, elapsed, wait_time, result>>
fnVars == <<call, ret>>
macroVars == <<m_pc, m_endian, m_ascii, FRAME_LENGTHS, CHAR_ARRAY,
               char_index, i, frames, oob>>
vars == <<mainVars, fnVars, macroVars>>

(***************************************************************************)
(* Bounds of the model.                                                    *)
(***************************************************************************)
MaxFrames == 2      \* frames per playback
MaxRows == 2        \* rows per frame
MaxTermCols == 2    \* terminal columns in Spec: 0..MaxTermCols
MaxTermRows == 4    \* terminal rows in Spec: 0..MaxTermRows
MaxCost == 2        \* per-iteration cost: 0..MaxCost steps of CostStep ms
CostStep == 30
MaxLen == 3         \* FnSpec: length of a drawn line
MaxDim == 12        \* FnSpec: u16 values 0..MaxDim and 65535-MaxDim..65535
MaxHeight == 4      \* FnSpec: frame heights near 0 and near 65536
MaxMacroFrames == 2 \* MacroSpec: frames
MaxMacroLen == 2    \* MacroSpec: chars per frame

(***************************************************************************)
(* Machine integers and text.                                              *)
(***************************************************************************)
U16_MAX == 65535

\* `x as u16`, and u16 arithmetic that wraps
AsU16(x) == x % (U16_MAX + 1)

Min(a, b) == IF a < b THEN a ELSE b

ESC == 27

\* char::is_ascii_alphabetic
is_ascii_alphabetic(c) == (c >= 65 /\ c <= 90) \/ (c >= 97 /\ c <= 122)

\* char::is_whitespace (White_Space), as str::trim uses it
is_whitespace(c) ==
    \/ (c >= 9 /\ c <= 13)
    \/ c \in {32, 133, 160, 5760, 8232, 8233, 8239, 8287, 12288}
    \/ (c >= 8192 /\ c <= 8202)

\* char::len_utf8
len_utf8(c) ==
    IF c < 128 THEN 1 ELSE IF c < 2048 THEN 2 ELSE IF c < 65536 THEN 3 ELSE 4

\* str::len: the length in bytes
RECURSIVE StrLen(_)
StrLen(s) == IF s = <<>> THEN 0 ELSE len_utf8(Head(s)) + StrLen(Tail(s))

RECURSIVE TrimStart(_)
TrimStart(s) ==
    IF s # <<>> /\ is_whitespace(Head(s)) THEN TrimStart(Tail(s)) ELSE s

RECURSIVE TrimEnd(_)
TrimEnd(s) ==
    IF s # <<>> /\ is_whitespace(s[Len(s)])
    THEN TrimEnd(SubSeq(s, 1, Len(s) - 1))
    ELSE s

\* str::trim
Trim(s) == TrimEnd(TrimStart(s))

(***************************************************************************)
(* The pure helpers of main.rs.                                            *)
(***************************************************************************)
FPS == 24

\* Duration::from_millis(1000 / FPS), in ms
frame_duration == 1000 \div FPS

\* Duration::saturating_sub, in ms
saturating_sub(a, b) == IF a > b THEN a - b ELSE 0

wait_time_no_modulo(elapsed_ms) == saturating_sub(frame_duration, elapsed_ms)

\* main.rs:50-52: the duration handed to sleep, from elapsed.as_millis()
wait_time_of(elapsed_ms) ==
    saturating_sub(frame_duration, elapsed_ms % frame_duration)

calculate_target_size_div_first(term_width, term_height) ==
    LET horizontal_scale_factor == 2
        target == Min(term_width * horizontal_scale_factor,
                      term_height * (8 \div 10))
    IN  IF target * 4 # 0 THEN target * 4 ELSE 80

\* u32 arithmetic; the largest intermediate value is 65535 * 8
calculate_target_size(term_width, term_height) ==
    LET horizontal_scale_factor == 2
        target == Min(term_width * horizontal_scale_factor,
                      (term_height * 8) \div 10)
    IN  IF target * 4 # 0 THEN target * 4 ELSE 80

get_vertical_padding_cast_first(term_height, frame_height) ==
    IF AsU16(frame_height) < term_height
    THEN AsU16(term_height - AsU16(frame_height)) \div 2
    ELSE 0

\* frame_height is frames[0].len(), a usize; term_height a u16
get_vertical_padding(term_height, frame_height) ==
    IF frame_height < term_height
    THEN AsU16(term_height - AsU16(frame_height)) \div 2
    ELSE 0

\* the for loop of remove_ansi_escape_sequences over the rest of the input
RECURSIVE remove_loop(_, _, _)
remove_loop(input, in_escape_sequence, acc) ==
    IF input = <<>> THEN acc
    ELSE LET c == Head(input)
         IN  IF c = ESC
             THEN remove_loop(Tail(input), TRUE, Append(acc, c))
             ELSE IF in_escape_sequence
             THEN remove_loop(Tail(input), ~is_ascii_alphabetic(c), acc)
             ELSE remove_loop(Tail(input), FALSE, Append(acc, c))

remove_ansi_escape_sequences(input) == remove_loop(input, FALSE, <<>>)

SetMax(S) == CHOOSE x \in S : \A y \in S : y <= x

\* the filter_map of get_horizontal_padding: Some(trimmed_line.len()) or None
line_widths(frame) ==
    { StrLen(Trim(remove_ansi_escape_sequences(frame[r]))) :
        r \in { q \in 1..Len(frame) :
                  Trim(remove_ansi_escape_sequences(frame[q])) # <<>> } }

get_horizontal_padding(term_width, frame) ==
    LET max_line_width ==
            (IF line_widths(frame) = {} THEN 0 ELSE SetMax(line_widths(frame)))
                \div 3
    IN  IF max_line_width < term_width
        THEN AsU16(term_width - AsU16(max_line_width)) \div 2
        ELSE 0

format_row_one_based(t, l, row, line) ==
    [row |-> AsU16(t + AsU16(row) + 1), col |-> l, text |-> line]

\* main.rs:43: format!("\x1B[{};{}H{}\n", top + row as u16, left, line),
\* kept as the position and the text it carries
format_row(t, l, row, line) ==
    [row |-> AsU16(t + AsU16(row)), col |-> l, text |-> line]

\* main.rs:40-44: output_buffer after the inner loop, rows counted from 0
render(frame, t, l) ==
    [r \in 1..Len(frame) |-> format_row(t, l, r - 1, frame[r])]

(***************************************************************************)
(* FnSpec: each helper applied once to an input drawn from a bounded set.  *)
(***************************************************************************)
\* ESC [ 1 m H and the space
Alphabet == {ESC, 91, 49, 109, 72, 32}

StrsUpTo(S, n) == UNION { [1..k -> S] : k \in 0..n }

\* "\x1b[31mHELLO\x1b[0m"
HelloStyled == <<27, 91, 51, 49, 109, 72, 69, 76, 76, 79, 27, 91, 48, 109>>

\* "HELLO"
Hello == <<72, 69, 76, 76, 79>>

Lines == StrsUpTo(Alphabet, MaxLen) \cup {HelloStyled, Hello}

\* one-line frames of any drawn line, and frames of two short lines
FnFrames ==
    {<<>>} \cup { <<ln>> : ln \in Lines }
           \cup { <<a, b>> : a \in StrsUpTo(Alphabet, 1) \cup {HelloStyled},
                             b \in StrsUpTo(Alphabet, 1) \cup {Hello} }

U16Low == 0..MaxDim

U16Samples == U16Low \cup ((U16_MAX - MaxDim)..U16_MAX) \cup {20, 30}

\* usize row counts: small ones, and ones around the u16 limit
Heights ==
    (0..MaxHeight) \cup {20}
        \cup ((U16_MAX - MaxHeight)..(U16_MAX + 1 + MaxHeight))

Calls ==
    { [fn |-> "remove_ansi_escape_sequences", input |-> s] : s \in Lines }
    \cup { [fn |-> "get_vertical_padding", term_height |-> r,
            frame_height |-> f] : r \in U16Samples, f \in Heights }
    \cup { [fn |-> "get_horizontal_padding", term_width |-> c, frame |-> fr] :
            c \in U16Low, fr \in FnFrames }
    \cup { [fn |-> "calculate_target_size", term_width |-> c,
            term_height |-> r] : c \in U16Samples, r \in U16Samples }

NoCall == [fn |-> "none"]
NoRet == [done |-> FALSE]
Returned(v) == [done |-> TRUE, value |-> v]

MainIdle ==
    /\ pc = "idle" /\ loaded = FALSE /\ term_size = <<0, 0>>
    /\ target_size = 0 /\ ascii_frames = <<>> /\ top = 0 /\ left = 0
    /\ frame_idx = 0 /\ output = <<>> /\ elapsed = 0 /\ wait_time = 0
    /\ result = "none"

FnIdle == call = NoCall /\ ret = NoRet

MacroIdle ==
    /\ m_pc = "idle" /\ m_endian = "little" /\ m_ascii = <<>>
    /\ FRAME_LENGTHS = <<>> /\ CHAR_ARRAY = <<>> /\ char_index = 0
    /\ i = 0 /\ frames = <<>> /\ oob = FALSE

FnInit == call \in Calls /\ ret = NoRet /\ MainIdle /\ MacroIdle

CallRemoveAnsiEscapeSequences ==
    /\ call.fn = "remove_ansi_escape_sequences" /\ ~ret.done
    /\ ret' = Returned(remove_ansi_escape_sequences(call.input))
    /\ UNCHANGED <<call, mainVars, macroVars>>

CallGetVerticalPadding ==
    /\ call.fn = "get_vertical_padding" /\ ~ret.done
    /\ ret' = Returned(get_vertical_padding(call.term_height,
                                            call.frame_height))
    /\ UNCHANGED <<call, mainVars, macroVars>>

CallGetHorizontalPadding ==
    /\ call.fn = "get_horizontal_padding" /\ ~ret.done
    /\ ret' = Returned(get_horizontal_padding(call.term_width, call.frame))
    /\ UNCHANGED <<call, mainVars, macroVars>>

CallCalculateTargetSize ==
    /\ call.fn = "calculate_target_size" /\ ~ret.done
    /\ ret' = Returned(calculate_target_size(call.term_width,
                                             call.term_height))
    /\ UNCHANGED <<call, mainVars, macroVars>>

FnNext ==
    \/ CallRemoveAnsiEscapeSequences
    \/ CallGetVerticalPadding
    \/ CallGetHorizontalPadding
    \/ CallCalculateTargetSize

FnSpec == FnInit /\ [][FnNext]_vars

(***************************************************************************)
(* Spec: main() of main.rs, one action per stretch of straight-line code   *)
(* between two points where it can fail or wait.                           *)
(***************************************************************************)
\* "A" and "B"
PlayLines == {<<65>>, <<66>>}

\* what extract_frames and frame_to_ascii can yield: every frame of one
\* playback is converted from images of one size with one target size, so
\* all have the same number of rows
FrameSeqs ==
    UNION { [1..n -> [1..f -> PlayLines]] : n \in 0..MaxFrames,
                                            f \in 0..MaxRows }

TermSizes == (0..MaxTermCols) \X (0..MaxTermRows)

\* ms that pass between the end of one sleep and the next reading of the
\* clock
Costs == { k * CostStep : k \in 0..MaxCost }

Clear == [op |-> "Clear"]
Hide == [op |-> "Hide"]
Show == [op |-> "Show"]
Flush == [op |-> "flush"]
WriteAll(buffer) == [op |-> "write_all", data |-> buffer]

Init ==
    /\ pc = "get_video_dimensions" /\ loaded = FALSE
    /\ term_size = <<0, 0>> /\ target_size = 0 /\ ascii_frames = <<>>
    /\ top = 0 /\ left = 0 /\ frame_idx = 0 /\ output = <<>>
    /\ elapsed = 0 /\ wait_time = 0 /\ result = "none"
    /\ FnIdle /\ MacroIdle

\* main returns r, or unwinds with a panic
Exit(r) == pc' = "exit" /\ result' = r

\* main.rs:18: ffprobe; `?` on its failure, unwrap and indexing on its output
GetVideoDimensions ==
    /\ pc = "get_video_dimensions"
    /\ \/ pc' = "terminal_size" /\ UNCHANGED result
       \/ Exit("Err")
       \/ Exit("panic")
    /\ UNCHANGED <<loaded, term_size, target_size, ascii_frames, top, left,
                   frame_idx, output, elapsed, wait_time, fnVars, macroVars>>

\* main.rs:19-20
TerminalSize ==
    /\ pc = "terminal_size"
    /\ \/ \E sz \in TermSizes :
            /\ term_size' = sz
            /\ target_size' = calculate_target_size(sz[1], sz[2])
            /\ pc' = "extract_frames" /\ UNCHANGED result
       \/ Exit("Err") /\ UNCHANGED <<term_size, target_size>>
    /\ UNCHANGED <<loaded, ascii_frames, top, left, frame_idx, output,
                   elapsed, wait_time, fnVars, macroVars>>

\* main.rs:22-26
ExtractFrames ==
    /\ pc = "extract_frames"
    /\ \/ \E fs \in FrameSeqs :
            /\ ascii_frames' = fs /\ loaded' = TRUE
            /\ pc' = "padding" /\ UNCHANGED result
       \/ Exit("Err") /\ UNCHANGED <<ascii_frames, loaded>>
    /\ UNCHANGED <<term_size, target_size, top, left, frame_idx, output,
                   elapsed, wait_time, fnVars, macroVars>>

\* main.rs:28-29; frames[0] (main.rs:139) panics on an empty vector
ComputePadding ==
    /\ pc = "padding"
    /\ IF ascii_frames = <<>>
       THEN Exit("panic") /\ UNCHANGED <<top, left>>
       ELSE /\ top' = get_vertical_padding(term_size[2],
                                           Len(ascii_frames[1]))
            /\ left' = get_horizontal_padding(term_size[1], ascii_frames[1])
            /\ pc' = "hide_cursor" /\ UNCHANGED result
    /\ UNCHANGED <<loaded, term_size, target_size, ascii_frames, frame_idx,
                   output, elapsed, wait_time, fnVars, macroVars>>

\* main.rs:31-37: queue Clear, queue Hide, start the clock
HideCursor ==
    /\ pc = "hide_cursor"
    /\ \/ /\ output' = output \o <<Clear, Hide>>
          /\ pc' = "loop" /\ UNCHANGED result
       \/ Exit("Err") /\ UNCHANGED output
       \/ Exit("Err") /\ output' = Append(output, Clear)
    /\ elapsed' = 0
    /\ UNCHANGED <<loaded, term_size, target_size, ascii_frames, top, left,
                   frame_idx, wait_time, fnVars, macroVars>>

\* main.rs:39-46: the next frame of the for loop, formatted into
\* output_buffer and written
DrawFrame ==
    /\ pc = "loop" /\ frame_idx < Len(ascii_frames)
    /\ LET output_buffer == render(ascii_frames[frame_idx + 1], top, left)
       IN  \/ /\ output' = Append(output, WriteAll(output_buffer))
              /\ pc' = "flush" /\ UNCHANGED result
           \/ Exit("Err") /\ UNCHANGED output
    /\ UNCHANGED <<loaded, term_size, target_size, ascii_frames, top, left,
                   frame_idx, elapsed, wait_time, fnVars, macroVars>>

\* main.rs:47
FlushFrame ==
    /\ pc = "flush"
    /\ \/ /\ output' = Append(output, Flush)
          /\ pc' = "sleep" /\ UNCHANGED result
       \/ Exit("Err") /\ UNCHANGED output
    /\ UNCHANGED <<loaded, term_size, target_size, ascii_frames, top, left,
                   frame_idx, elapsed, wait_time, fnVars, macroVars>>

\* main.rs:49-55: read the clock, sleep, go to the next frame.  The clock
\* reads the last reading plus the last sleep plus what passed since.
SleepFrame ==
    /\ pc = "sleep"
    /\ \E cost \in Costs : elapsed' = elapsed + wait_time + cost
    /\ wait_time' = wait_time_of(elapsed')
    /\ frame_idx' = frame_idx + 1
    /\ pc' = "loop"
    /\ UNCHANGED <<loaded, term_size, target_size, ascii_frames, top, left,
                   output, result, fnVars, macroVars>>

\* main.rs:57-58, once the for loop has run out of frames
ShowCursor ==
    /\ pc = "loop" /\ frame_idx = Len(ascii_frames)
    /\ \/ output' = Append(output, Show) /\ Exit("Ok")
       \/ UNCHANGED output /\ Exit("Err")
    /\ UNCHANGED <<loaded, term_size, target_size, ascii_frames, top, left,
                   frame_idx, elapsed, wait_time, fnVars, macroVars>>

Next ==
    \/ GetVideoDimensions
    \/ TerminalSize
    \/ ExtractFrames
    \/ ComputePadding
    \/ HideCursor
    \/ DrawFrame
    \/ FlushFrame
    \/ SleepFrame
    \/ ShowCursor

Spec == Init /\ [][Next]_vars

(***************************************************************************)
(* MacroSpec: process() of lib.rs flattens the converted frames into       *)
(* FRAME_LENGTHS and CHAR_ARRAY; create_frames() of the generated module   *)
(* rebuilds one &str per frame from them.                                  *)
(***************************************************************************)
\* "A", "B" and a two-byte character
MacroAlphabet == {65, 66, 233}

MacroFrameSeqs ==
    UNION { [1..n -> StrsUpTo(MacroAlphabet, MaxMacroLen)] :
              n \in 0..MaxMacroFrames }

RECURSIVE Sum(_)
Sum(s) == IF s = <<>> THEN 0 ELSE Head(s) + Sum(Tail(s))

\* [String]::join("")
RECURSIVE Join(_)
Join(ss) == IF ss = <<>> THEN <<>> ELSE Head(ss) \o Join(Tail(ss))

\* the four bytes a char occupies in memory
CharBytes(c, endian) ==
    LET le == <<c % 256, (c \div 256) % 256, (c \div 65536) % 256, 0>>
    IN  IF endian = "little" THEN le ELSE <<le[4], le[3], le[2], le[1]>>

\* the memory of CHAR_ARRAY: [char; TOTAL_CHARS], byte by byte
RECURSIVE Memory(_, _)
Memory(chars, endian) ==
    IF chars = <<>> THEN <<>>
    ELSE CharBytes(Head(chars), endian) \o Memory(Tail(chars), endian)

\* slice::from_raw_parts(CHAR_ARRAY.as_ptr().add(char_index) as *const u8,
\* length): `add` counts in chars of four bytes, the slice in bytes; a read
\* past the array is undefined and may yield anything
from_raw_parts(char_array, endian, index, length) ==
    LET mem == Memory(char_array, endian)
        start == 4 * index
    IN  IF start + length <= Len(mem)
        THEN {SubSeq(mem, start + 1, start + length)}
        ELSE [1..length -> {0, 255}]

MacroInit ==
    /\ m_pc = "process"
    /\ m_endian \in {"little", "big"}
    /\ m_ascii \in MacroFrameSeqs
    /\ FRAME_LENGTHS = <<>> /\ CHAR_ARRAY = <<>> /\ char_index = 0
    /\ i = 0 /\ frames = <<>> /\ oob = FALSE
    /\ MainIdle /\ FnIdle

\* lib.rs:13-66: the expansion, and rustc's check of the generated items:
\* CHAR_ARRAY is declared with TOTAL_CHARS elements and must list as many
Process ==
    /\ m_pc = "process"
    /\ LET frame_lengths == [k \in 1..Len(m_ascii) |-> StrLen(m_ascii[k])]
           total_chars == Sum(frame_lengths)
           all_chars == Join(m_ascii)
       IN  /\ FRAME_LENGTHS' = frame_lengths
           /\ CHAR_ARRAY' = all_chars
           /\ frames' = [k \in 1..Len(m_ascii) |-> <<>>]
           /\ m_pc' = IF Len(all_chars) = total_chars
                      THEN "create_frames" ELSE "compile_error"
    /\ UNCHANGED <<m_endian, m_ascii, char_index, i, oob, mainVars, fnVars>>

\* lib.rs:15: extract_frames(..).expect(..)
ProcessPanics ==
    /\ m_pc = "process"
    /\ m_pc' = "compile_error"
    /\ UNCHANGED <<m_endian, m_ascii, FRAME_LENGTHS, CHAR_ARRAY, char_index,
                   i, frames, oob, mainVars, fnVars>>

\* lib.rs:42-55: one turn of the while loop of create_frames
CreateFramesStep ==
    /\ m_pc = "create_frames" /\ i < Len(FRAME_LENGTHS)
    /\ LET length == FRAME_LENGTHS[i + 1]
       IN  /\ \E bytes \in from_raw_parts(CHAR_ARRAY, m_endian, char_index,
                                          length) :
                 frames' = [frames EXCEPT ![i + 1] = bytes]
           /\ oob' = (oob \/ 4 * char_index + length > 4 * Len(CHAR_ARRAY))
           /\ char_index' = char_index + length
    /\ i' = i + 1
    /\ UNCHANGED <<m_pc, m_endian, m_ascii, FRAME_LENGTHS, CHAR_ARRAY,
                   mainVars, fnVars>>

\* lib.rs:56-59: ASCII_FRAMES = create_frames()
CreateFramesReturn ==
    /\ m_pc = "create_frames" /\ i = Len(FRAME_LENGTHS)
    /\ m_pc' = "done"
    /\ UNCHANGED <<m_endian, m_ascii, FRAME_LENGTHS, CHAR_ARRAY, char_index,
                   i, frames, oob, mainVars, fnVars>>

MacroNext ==
    \/ Process
    \/ ProcessPanics
    \/ CreateFramesStep
    \/ CreateFramesReturn

MacroSpec == MacroInit /\ [][MacroNext]_vars

(***************************************************************************)
(* Properties of the helpers (FnSpec).                                     *)
(***************************************************************************)
\* the input after the escape sequence whose ESC was just read: everything
\* after the first ASCII alphabetic character
RECURSIVE AfterEscape(_)
AfterEscape(s) ==
    IF s = <<>> THEN <<>>
    ELSE IF is_ascii_alphabetic(Head(s)) THEN Tail(s)
    ELSE AfterEscape(Tail(s))

\* the characters of s outside every escape sequence, in order
RECURSIVE OutsideEscapes(_)
OutsideEscapes(s) ==
    IF s = <<>> THEN <<>>
    ELSE IF Head(s) = ESC THEN OutsideEscapes(AfterEscape(Tail(s)))
    ELSE <<Head(s)>> \o OutsideEscapes(Tail(s))

Returns(f) == call.fn = f /\ ret.done

\* C4: remove_ansi_escape_sequences returns exactly the characters of its
\* input outside every escape sequence (ESC through the first following
\* ASCII letter), so the output holds no ESC, and "\x1b[31mHELLO\x1b[0m"
\* stripped and trimmed is "HELLO", of length 5.
C4_StripsEscapeSequences ==
    Returns("remove_ansi_escape_sequences") =>
        /\ ret.value = OutsideEscapes(call.input)
        /\ \A k \in 1..Len(ret.value) : ret.value[k] # ESC
        /\ call.input = HelloStyled =>
              /\ Trim(ret.value) = Hello
              /\ StrLen(Trim(ret.value)) = 5

C4_EscapeWasStripped ==
    /\ Returns("remove_ansi_escape_sequences")
    /\ call.input = HelloStyled

\* C5: get_vertical_padding returns floor((R - F) / 2) when R > F and 0
\* when R <= F, for every u16 R and every row count F, the cast of F to
\* u16 losing nothing; F=20,R=20 gives 0 and F=20,R=30 gives 5.
C5_VerticalPadding ==
    Returns("get_vertical_padding") =>
        /\ ret.value = IF call.term_height > call.frame_height
                       THEN (call.term_height - call.frame_height) \div 2
                       ELSE 0
        /\ (call.term_height = 20 /\ call.frame_height = 20) => ret.value = 0
        /\ (call.term_height = 30 /\ call.frame_height = 20) => ret.value = 5

\* a frame taller than u16 can count did not get any padding
C5_TallFrameSeen ==
    /\ Returns("get_vertical_padding")
    /\ call.frame_height > U16_MAX
    /\ AsU16(call.frame_height) < call.term_height
    /\ ret.value = 0

\* the visible width M of C6: the longest stripped and trimmed line
VisibleLines(frame) ==
    { Trim(OutsideEscapes(frame[r])) : r \in 1..Len(frame) } \ {<<>>}

MaxVisibleWidth(frame) ==
    IF VisibleLines(frame) = {} THEN 0
    ELSE SetMax({ Len(v) : v \in VisibleLines(frame) })

\* C6: get_horizontal_padding returns floor((C - W) / 2) when C > W and 0
\* otherwise, W = floor(M / 3), M the largest visible width of the frame's
\* lines that are non-empty once stripped and trimmed (0 when there is
\* none), escape sequences adding nothing to the width.
C6_HorizontalPadding ==
    Returns("get_horizontal_padding") =>
        LET W == MaxVisibleWidth(call.frame) \div 3
        IN  ret.value = IF call.term_width > W
                        THEN (call.term_width - W) \div 2
                        ELSE 0

C6_StyledLineMeasured ==
    /\ Returns("get_horizontal_padding")
    /\ \E r \in 1..Len(call.frame) : call.frame[r] = HelloStyled

Computed(c, r) == Min(c * 2, (r * 8) \div 10) * 4

\* C7 as claimed: calculate_target_size returns
\* min(cols * 2, floor(rows * 8 / 10)) * 4 clamped to a minimum of 80: never
\* zero, 80 when the computed value is zero, never below 80.
C7_ClampedToEighty ==
    Returns("calculate_target_size") =>
        LET v == Computed(call.term_width, call.term_height)
        IN  /\ ret.value # 0
            /\ v = 0 => ret.value = 80
            /\ ret.value >= 80
            /\ ret.value = IF v < 80 THEN 80 ELSE v

\* C7 as amended: calculate_target_size returns
\* min(cols * 2, floor(rows * 8 / 10)) * 4, computed within u32, when that
\* value is not zero, and 80 when it is zero; the result is never zero (it
\* is below 80 for small terminals).
C7_EightyOnlyWhenZero ==
    Returns("calculate_target_size") =>
        LET v == Computed(call.term_width, call.term_height)
        IN  /\ ret.value # 0
            /\ ret.value = IF v = 0 THEN 80 ELSE v
            /\ call.term_width * 2 <= 2147483647
            /\ call.term_height * 8 <= 2147483647
            /\ v <= 2147483647

\* a terminal one row high, too small for any cell, got the fallback
C7_FallbackTaken ==
    /\ Returns("calculate_target_size")
    /\ call.term_width > 0 /\ call.term_height = 1
    /\ ret.value = 80

(***************************************************************************)
(* Properties of the playback loop (Spec).                                 *)
(***************************************************************************)
\* the write_all calls stdout has received, in order
Writes == SelectSeq(output, LAMBDA e : e.op = "write_all")

\* C1: for every frame drawn after the first, a write of row r is emitted
\* only if row r differs from row r of the frame drawn before it, or r is
\* beyond that frame's row count; drawing the same frame again emits no
\* line write.
C1_OnlyChangedRowsWritten ==
    \A k \in 2..Len(Writes) :
        \A p \in 1..Len(Writes[k].data) :
            LET r == Writes[k].data[p].row - top + 1
            IN  \/ r > Len(ascii_frames[k - 1])
                \/ ascii_frames[k][r] # ascii_frames[k - 1][r]

\* C2: once the cursor is hidden, main does not exit without having issued
\* the show-cursor command.
C2_CursorRestoredOnExit ==
    (pc = "exit" /\ \E k \in 1..Len(output) : output[k] = Hide) =>
        \E k \in 1..Len(output) : output[k] = Show

\* C3: when extraction yields no frame, main returns an error value, and
\* does so before the terminal is cleared or the cursor hidden.
C3_EmptyInputIsAnError ==
    (pc = "exit" /\ loaded /\ ascii_frames = <<>>) =>
        result = "Err" /\ output = <<>>

\* row r (from 0) of frame f at cursor position (top + r, left)
PlacedRows(f) ==
    [r \in 1..Len(f) |-> [row |-> top + (r - 1), col |-> left, text |-> f[r]]]

\* Clear, Hide, then for each of the first n frames one write of all its
\* rows and one flush
DrawnInOrder(n) ==
    [j \in 1..(2 + 2 * n) |->
        IF j = 1 THEN Clear
        ELSE IF j = 2 THEN Hide
        ELSE IF j % 2 = 1 THEN WriteAll(PlacedRows(ascii_frames[(j - 1) \div 2]))
        ELSE Flush]

\* C8: with N >= 1 frames and no write failure the loop writes frames
\* 0, 1, ..., N-1 in order, each once, every row r at (top + r, left), in one
\* write and one flush per frame, and ends after frame N-1.
C8_FramesInOrder ==
    /\ frame_idx <= Len(ascii_frames)
    /\ pc = "loop" => output = DrawnInOrder(frame_idx)
    /\ pc = "flush" =>
          output = Append(SubSeq(DrawnInOrder(frame_idx + 1), 1,
                                 2 * frame_idx + 2),
                          WriteAll(PlacedRows(ascii_frames[frame_idx + 1])))
    /\ pc = "sleep" => output = DrawnInOrder(frame_idx + 1)
    /\ (pc = "exit" /\ result = "Ok") =>
          /\ Len(ascii_frames) >= 1
          /\ frame_idx = Len(ascii_frames)
          /\ output = Append(DrawnInOrder(Len(ascii_frames)), Show)

C8_PlayedToTheEnd ==
    /\ pc = "exit" /\ result = "Ok"
    /\ Len(ascii_frames) >= 2 /\ ascii_frames[1] # ascii_frames[2]
    /\ Len(ascii_frames[1]) >= 2 /\ top > 0 /\ left > 0

\* C9: the sleep after a frame is frame_duration - (elapsed mod
\* frame_duration) ms: more than 0, at most frame_duration, and elapsed +
\* sleep is a multiple of frame_duration.
C9_SleepRealigns ==
    frame_idx > 0 =>
        /\ wait_time = frame_duration - (elapsed % frame_duration)
        /\ wait_time > 0 /\ wait_time <= frame_duration
        /\ (elapsed + wait_time) % frame_duration = 0

\* a frame whose reading came later than one frame interval into a slot
C9_SleptAfterOverrun ==
    /\ frame_idx > 1
    /\ elapsed > 2 * frame_duration
    /\ elapsed % frame_duration # 0
    /\ wait_time < frame_duration

(***************************************************************************)
(* Properties of the generated module (MacroSpec).                         *)
(***************************************************************************)
\* the UTF-8 encoding of a char, and of a String
Utf8Char(c) ==
    IF c < 128 THEN <<c>>
    ELSE IF c < 2048 THEN <<192 + (c \div 64), 128 + (c % 64)>>
    ELSE IF c < 65536
    THEN <<224 + (c \div 4096), 128 + ((c \div 64) % 64), 128 + (c % 64)>>
    ELSE <<240 + (c \div 262144), 128 + ((c \div 4096) % 64),
           128 + ((c \div 64) % 64), 128 + (c % 64)>>

RECURSIVE Utf8(_)
Utf8(s) == IF s = <<>> THEN <<>> ELSE Utf8Char(Head(s)) \o Utf8(Tail(s))

\* C10: every ASCII_FRAMES[k] built by create_frames equals, byte for byte,
\* the k-th converted frame that was flattened into CHAR_ARRAY, and every
\* read of CHAR_ARRAY made to build it stays within the array.
C10_FramesRoundTrip ==
    m_pc = "done" =>
        /\ ~oob
        /\ Len(frames) = Len(m_ascii)
        /\ \A k \in 1..Len(frames) : frames[k] = Utf8(m_ascii[k])

C10_FramesBuilt ==
    /\ m_pc = "done"
    /\ Len(frames) >= 2 /\ \A k \in 1..Len(frames) : Len(frames[k]) >= 2

====
